---- MODULE Spec2Model ----
(***************************************************************************)
(* Model of the shop application in src/app.py: the order ledger           *)
(* (Bestellung, BestellPosition, StornoToken), the Buchbutler inventory    *)
(* oracle client, the product catalogue, the order mail and the cart page. *)
(* Every HTTP handler is one atomic action; its database session is        *)
(* modelled by the pending rows it holds until commit or rollback.         *)
(***************************************************************************)
EXTENDS Integers, Sequences, FiniteSets, TLC

\* ---------------------------------------------------------------- bounds
MaxId == 2          \* largest Bestellung and StornoToken id handed out
MaxLines == 2       \* longest auftrag_position list of a request
MaxClock == 1       \* datetime.utcnow ranges over 0..MaxClock

\* ---------------------------------------------------------------- values
None == "None"      \* Python None where the other values are strings
Absent == "absent"  \* a dict key that is not there

VARIABLES
    env,              \* the environment read at start-up (lines 37-58)
    Bestellung,       \* committed rows of table bestellung
    BestellPosition,  \* committed rows of table bestell_position
    StornoToken,      \* committed rows of table storno_token
    sequences,        \* PostgreSQL id sequences (unused by SQLite)
    utcnow,           \* the clock read by the column default
    produkte,         \* the in-process catalogue list
    last              \* the last request and the response it got

vars == <<env, Bestellung, BestellPosition, StornoToken, sequences, utcnow,
          produkte, last>>

\* ------------------------------------------------------------- utilities
SetMax(S) == IF S = {} THEN 0 ELSE CHOOSE m \in S : \A x \in S : x <= m

Ids(rows) == {r.id : r \in rows}

\* ------------------------------------------------- to_float (lines 114-120)
Digits == <<"0", "1", "2", "3", "4", "5", "6", "7", "8", "9">>

IsDigit(c) == \E i \in 1..10 : Digits[i] = c

DigitVal(c) == (CHOOSE i \in 1..10 : Digits[i] = c) - 1

\* str(value).replace(",", ".")
replace_comma(s) == [i \in 1..Len(s) |-> IF s[i] = "," THEN "." ELSE s[i]]

RECURSIVE IntOf(_)
IntOf(s) == IF s = <<>> THEN 0
            ELSE 10 * IntOf(SubSeq(s, 1, Len(s) - 1)) + DigitVal(s[Len(s)])

\* position of the first "." of s, 0 when there is none
DotAt(s) == IF \E i \in 1..Len(s) : s[i] = "."
            THEN CHOOSE i \in 1..Len(s) : s[i] = "." /\ \A j \in 1..(i-1) : s[j] # "."
            ELSE 0

ValueError == -1    \* stands for float() or int() raising ValueError

\* float(s) in hundredths; ValueError where Python raises ValueError.  The
\* strings of the model are unsigned and carry at most two decimals.
float(s) ==
    LET d == DotAt(s)
        ip == IF d = 0 THEN s ELSE SubSeq(s, 1, d - 1)
        fp == IF d = 0 THEN <<>> ELSE SubSeq(s, d + 1, Len(s))
    IN IF /\ \A i \in 1..Len(ip) : IsDigit(ip[i])
          /\ \A i \in 1..Len(fp) : IsDigit(fp[i])
          /\ Len(ip) + Len(fp) > 0
          /\ Len(fp) <= 2
       THEN IntOf(ip) * 100
            + (IF Len(fp) = 0 THEN 0
               ELSE IF Len(fp) = 1 THEN 10 * IntOf(fp) ELSE IntOf(fp))
       ELSE ValueError

\* value is a character sequence; <<>> stands for None and for "".
to_float(value) ==
    IF value = <<>> THEN 0
    ELSE LET s == replace_comma(value)
         IN IF float(s) = ValueError THEN 0 ELSE float(s)

\* ------------------------------------------- the Buchbutler HTTP exchange
Preis1250 == <<"1", "2", ",", "5", "0">>
Preis999 == <<"9", ".", "9", "9">>
PreisAbc == <<"a", "b", "c">>
Preis1234 == <<"1", ".", "2", "3", "4", ",", "5">>

\* the price texts the provider sends in the model; <<>> is a missing key
PreisTexte == {<<>>, Preis1250, Preis999, PreisAbc, Preis1234}

\* to_float of each of them, computed once
preis_von == [v \in PreisTexte |-> to_float(v)]

\* A JSON object of the provider, with the keys the code reads.  Preis and
\* vk_brutto are character sequences (<<>> when absent); Artikelattribute
\* and its member Autor are "absent", "obj" or "str" (a non-object value).
JsonObj(preis, pim, bez, attrs, autor) ==
    [Preis |-> preis, Bestand |-> "5", Erfuellungsrate |-> "98",
     Handling_Zeit_in_Werktagen |-> "2",
     pim_artikel_id |-> pim, bezeichnung |-> bez, vk_brutto |-> preis,
     Artikelattribute |-> attrs, Autor |-> autor]

NoObj == JsonObj(<<>>, None, None, "absent", "absent")

\* The value of data["response"]: t is its JSON type ("absent" when the key
\* is missing), falsy its Python truth value negated, first the type of
\* element 0 of a list, obj the object (for a list: its element 0).
JsonVal(t, falsy, first, obj) == [t |-> t, falsy |-> falsy, first |-> first, obj |-> obj]

PyNone == JsonVal("null", TRUE, "none", NoObj)

\* What requests.get meets: net is "ok", "neterr" (connection error or
\* timeout), "http_err" (raise_for_status) or "bad_json" (response.json()
\* fails); body is the JSON type of the decoded document.
Reply(net, body, response) == [net |-> net, body |-> body, response |-> response]

GoodObj == JsonObj(Preis1250, "7", "Neu", "obj", "obj")
ListObj == JsonObj(Preis999, None, "Neu", "absent", "absent")
AbcObj == JsonObj(PreisAbc, "7", None, "obj", "absent")

R_obj == Reply("ok", "obj", JsonVal("obj", FALSE, "none", GoodObj))
R_list_obj == Reply("ok", "obj", JsonVal("list", FALSE, "obj", ListObj))
R_abc == Reply("ok", "obj", JsonVal("obj", FALSE, "none", AbcObj))
R_neterr == Reply("neterr", "obj", PyNone)
R_http_err == Reply("http_err", "obj", PyNone)
R_bad_json == Reply("bad_json", "obj", PyNone)
R_body_list == Reply("ok", "list", PyNone)
R_no_response == Reply("ok", "obj", JsonVal("absent", TRUE, "none", NoObj))
R_null == Reply("ok", "obj", PyNone)
R_empty_list == Reply("ok", "obj", JsonVal("list", TRUE, "none", NoObj))
R_str == Reply("ok", "obj", JsonVal("str", FALSE, "none", NoObj))
R_num == Reply("ok", "obj", JsonVal("num", FALSE, "none", NoObj))
R_list_str == Reply("ok", "obj", JsonVal("list", FALSE, "str", NoObj))
R_attrs_str == Reply("ok", "obj", JsonVal("obj", FALSE, "none",
                      JsonObj(Preis999, "7", "Neu", "str", "absent")))
R_autor_str == Reply("ok", "obj", JsonVal("obj", FALSE, "none",
                      JsonObj(Preis1234, "7", "Neu", "obj", "str")))

Failures == {R_neterr, R_http_err, R_bad_json}

Malformed == {R_body_list, R_no_response, R_null, R_empty_list, R_str, R_num,
              R_list_str}

Replies == {R_obj, R_list_obj, R_abc} \cup Failures \cup Malformed
           \cup {R_attrs_str, R_autor_str}

\* buchbutler_request (lines 122-138): the response value, PyNone for None.
buchbutler_request(e, reply) ==
    IF ~e.buchbutler THEN PyNone
    ELSE IF reply.net # "ok" THEN PyNone          \* except Exception
    ELSE IF reply.body # "obj" THEN PyNone        \* data.get: AttributeError
    ELSE IF reply.response.t = "absent" THEN PyNone
    ELSE reply.response

\* Results of the two lookups: k is "None", "dict" or "raise" (an
\* AttributeError that leaves the function).
Lookup(k, id, name, autor, preis, bestand, rate, zeit) ==
    [k |-> k, id |-> id, name |-> name, autor |-> autor, preis |-> preis,
     bestand |-> bestand, erfuellungsrate |-> rate, handling_zeit |-> zeit]

LookupNone == Lookup("None", None, None, "", 0, None, None, None)
LookupRaise == Lookup("raise", None, None, "", 0, None, None, None)

\* lade_bestand_von_api (lines 140-151)
lade_bestand_von_api(e, reply) ==
    LET res == buchbutler_request(e, reply)
        t == IF res.t = "list" THEN res.first ELSE res.t    \* res = res[0]
    IN IF res.falsy THEN LookupNone
       ELSE IF t # "obj" THEN LookupRaise                   \* res.get
       ELSE Lookup("dict", None, None, "", preis_von[res.obj.Preis], res.obj.Bestand,
                   res.obj.Erfuellungsrate, res.obj.Handling_Zeit_in_Werktagen)

\* lade_produkt_von_api (lines 153-178)
lade_produkt_von_api(e, reply) ==
    LET res == buchbutler_request(e, reply)
    IN IF res.falsy THEN LookupNone
       ELSE IF res.t # "obj" THEN LookupRaise               \* res.get
       ELSE IF res.obj.Artikelattribute = "str" THEN LookupRaise  \* attrs.get
       ELSE IF res.obj.Artikelattribute = "obj" /\ res.obj.Autor = "str"
            THEN LookupRaise                                \* (...).get("Wert")
       ELSE Lookup("dict", res.obj.pim_artikel_id, res.obj.bezeichnung,
                   \* (attrs.get("Autor") or {}).get("Wert", ""); the other
                   \* attribute keys are read the same way
                   IF res.obj.Artikelattribute = "obj" /\ res.obj.Autor = "obj"
                   THEN "Wert" ELSE "",
                   preis_von[res.obj.vk_brutto], None, None, None)

\* ------------------------------------------------------- the order ledger
\* The database as one value: the three tables and the id sequences.
DB == [B |-> Bestellung, P |-> BestellPosition, T |-> StornoToken,
       seq |-> sequences]

\* The primary key a flushed INSERT gets (lines 71, 83, 91: Integer primary
\* keys).  SQLite's rowid is one more than the largest id in the table;
\* PostgreSQL draws from a sequence that a rollback does not give back.
next_id(e, rows, seqval) ==
    IF e.db_engine = "sqlite" THEN SetMax(Ids(rows)) + 1 ELSE seqval + 1

\* db.session.flush() of a new Bestellung (lines 263-265): the row gets its
\* id inside the open transaction; nothing is committed.
flush(e, db, table) ==
    LET id == next_id(e, db[table], db.seq[table])
    IN [id |-> id,
        db |-> IF e.db_engine = "sqlite" THEN db
               ELSE [db EXCEPT !.seq[table] = id]]

\* ids for the pending BestellPosition rows, in the order they were added
number_rows(e, db, pending) ==
    LET first == next_id(e, db.P, db.seq.P)
    IN {[pending[i] EXCEPT !.id = first + i - 1] : i \in 1..Len(pending)}

\* db.session.commit() (line 281): the flushed Bestellung and the pending
\* BestellPosition rows become durable.
commit(e, db, sess) ==
    LET rows == number_rows(e, db, sess.P)
    IN [db EXCEPT !.B = db.B \cup sess.B,
                  !.P = db.P \cup rows,
                  !.seq.P = IF e.db_engine = "sqlite" \/ rows = {} THEN @
                            ELSE SetMax(Ids(rows))]

\* a rollback that keeps what the session holds
rollback_commits(e, db, sess) == commit(e, db, sess)

\* db.session.rollback() (line 271): the flushed Bestellung and every
\* pending BestellPosition are dropped.
rollback(e, db, sess) == db

\* int(pos.get("menge", 1)) (line 268): menge is a character sequence,
\* <<>> when the key is missing; ValueError stands for the ValueError.
int(menge) ==
    IF menge = <<>> THEN 1
    ELSE IF \A i \in 1..Len(menge) : IsDigit(menge[i]) THEN IntOf(menge)
    ELSE ValueError

\* The loop over auftrag_position (lines 266-280).  k is "ok" when every
\* line was added, "unavailable" at the first line the oracle has nothing
\* for, "raise" when int() or the lookup raises.
RECURSIVE positionen_schleife(_, _, _, _)
positionen_schleife(e, lines, bid, pending) ==
    IF lines = <<>> THEN [k |-> "ok", P |-> pending, ean |-> None]
    ELSE LET pos == Head(lines)
             menge == int(pos.menge)
             movement == lade_bestand_von_api(e, pos.reply)
         IN IF menge = ValueError \/ movement.k = "raise"
            THEN [k |-> "raise", P |-> pending, ean |-> pos.ean]
            ELSE IF movement.k = "None"
            THEN [k |-> "unavailable", P |-> pending, ean |-> pos.ean]
            ELSE positionen_schleife(e, Tail(lines), bid,
                    Append(pending, [id |-> 0, bestell_id |-> bid, ean |-> pos.ean,
                                     bezeichnung |-> pos.pos_bezeichnung,
                                     menge |-> menge, preis |-> movement.preis]))

\* secrets.token_urlsafe(32) (line 211): a value no earlier token has; the
\* tokens are numbered in the order they are drawn.
token_urlsafe(db) == SetMax({t.token : t \in db.T}) + 1

\* generate_cancel_token (lines 210-214): one StornoToken row, committed.
generate_cancel_token(e, db, bestell_id, now) ==
    LET f == flush(e, db, "T")
    IN [f.db EXCEPT !.T = @ \cup {[id |-> f.id, bestell_id |-> bestell_id,
                                   token |-> token_urlsafe(db), created |-> now]}]

\* send_email (lines 184-204): returns without sending when SendGrid is
\* not configured; otherwise sg.send succeeds or raises.
send_email(e, provider) ==
    IF ~e.sendgrid THEN "return"
    ELSE IF provider = "fail" THEN "raise" ELSE "sent"

\* the send without the try/except around it
bestellmail_unguarded(e, provider) == send_email(e, provider)

\* try: send_email(...) except Exception: logger.error (lines 283-290)
bestellmail(e, provider) ==
    IF send_email(e, provider) = "raise" THEN "logged" ELSE send_email(e, provider)

\* -------------------------------------------------------------- responses
NoCount == [B |-> 0, P |-> 0, T |-> 0]

Response(route, status) ==
    [route |-> route, status |-> status, success |-> FALSE, bestellId |-> 0,
     email |-> FALSE, nlines |-> 0, unavailable |-> 0, pending |-> 0,
     send |-> "none", lookup |-> "none",
     committed_at_send |-> FALSE, existed |-> FALSE, listing |-> <<>>,
     items |-> <<>>, total |-> 0, added |-> NoCount, removed |-> NoCount]

\* rows the request added to and removed from the committed tables
Delta(resp, old, new) ==
    [resp EXCEPT
       !.added = [t \in {"B", "P", "T"} |-> Cardinality(new[t] \ old[t])],
       !.removed = [t \in {"B", "P", "T"} |-> Cardinality(old[t] \ new[t])]]

\* the first line of the request the oracle reports unavailable for (0 when
\* there is none), whether or not the handler gets as far as asking
Unavailable(e, lines) ==
    LET none == {i \in 1..Len(lines) : lade_bestand_von_api(e, lines[i].reply).k = "None"}
    IN IF none = {} THEN 0 ELSE CHOOSE i \in none : \A j \in none : i <= j

truthy(str) == str # None /\ str # ""

\* POST /bestellung (lines 252-291)
neue_bestellung(e, db, data, now, provider) ==
    LET lines == data.auftrag_position
        req == [Response("neue_bestellung", 400) EXCEPT
                  !.email = truthy(data.email), !.nlines = Len(lines),
                  !.unavailable = Unavailable(e, lines)]
    IN IF ~truthy(data.email) THEN [db |-> db, resp |-> req]
       ELSE LET f == flush(e, db, "B")
                bestellung == [id |-> f.id, bestelldatum |-> now,
                               email |-> data.email, status |-> "offen"]
                loop == positionen_schleife(e, lines, f.id, <<>>)
                sess == [B |-> {bestellung}, P |-> loop.P]
            IN IF loop.k = "raise"
               THEN [db |-> f.db,
                     resp |-> [req EXCEPT !.status = 500, !.pending = Len(loop.P)]]
               ELSE IF loop.k = "unavailable"
               THEN [db |-> rollback(e, f.db, sess),
                     resp |-> [req EXCEPT !.pending = Len(loop.P)]]
               ELSE LET db1 == commit(e, f.db, sess)
                        db2 == generate_cancel_token(e, db1, f.id, now)
                        mail == bestellmail(e, provider)
                        sent == [req EXCEPT !.bestellId = f.id,
                                   !.send = send_email(e, provider),
                                   !.committed_at_send = f.id \in Ids(db1.B)]
                    IN IF mail = "raise"
                       THEN [db |-> db2, resp |-> [sent EXCEPT !.status = 500]]
                       ELSE [db |-> db2,
                             resp |-> [sent EXCEPT !.status = 200, !.success = TRUE]]

\* POST /checkout (lines 355-374): the form's name and email; the lines of
\* the cart are not read.
checkout(e, db, form, now) ==
    LET req == [Response("checkout", 302) EXCEPT
                  !.email = truthy(form.email), !.nlines = form.nlines]
    IN IF ~truthy(form.name) \/ ~truthy(form.email)
       THEN [db |-> db, resp |-> req]          \* flash, redirect to checkout
       ELSE LET f == flush(e, db, "B")
                bestellung == [id |-> f.id, bestelldatum |-> now,
                               email |-> form.email, status |-> "offen"]
            IN [db |-> commit(e, f.db, [B |-> {bestellung}, P |-> <<>>]),
                resp |-> [req EXCEPT !.success = TRUE, !.bestellId = f.id]]

\* Foreign keys (lines 84, 92) are checked by PostgreSQL; SQLite, the
\* default of line 40, leaves them unchecked unless a PRAGMA turns them on.
fk_enforced(e) == e.db_engine = "postgresql"

\* DELETE /bestellung/<id> (lines 311-318).  The relationship of lines 76-80
\* deletes the BestellPosition rows with the Bestellung; StornoToken has no
\* such cascade, so an enforced foreign key refuses the commit.
bestellung_loeschen(e, db, bestell_id) ==
    LET req == Response("bestellung_loeschen", 404)
        b == {r \in db.B : r.id = bestell_id}
    IN IF b = {} THEN [db |-> db, resp |-> req]
       ELSE IF fk_enforced(e) /\ \E t \in db.T : t.bestell_id = bestell_id
       THEN [db |-> db,
             resp |-> [req EXCEPT !.status = 500, !.existed = TRUE,
                                  !.bestellId = bestell_id]]
       ELSE [db |-> [db EXCEPT !.B = @ \ b,
                               !.P = {r \in @ : r.bestell_id # bestell_id}],
             resp |-> [req EXCEPT !.status = 200, !.success = TRUE,
                                  !.existed = TRUE, !.bestellId = bestell_id]]

\* GET /bestellungen (lines 294-298): Bestellung.query.all() has no ORDER
\* BY, so the order of the rows is the engine's; order is one of them.
alle_bestellungen(db, order) ==
    [Response("alle_bestellungen", 200) EXCEPT
       !.success = TRUE,
       !.listing = [i \in 1..Len(order) |->
                      [id |-> order[i].id, email |-> order[i].email,
                       bestelldatum |-> order[i].bestelldatum]]]

\* the orders in which a query without ORDER BY can return the rows
RowOrders(rows) ==
    {o \in [1..Cardinality(rows) -> rows] : \A i, j \in DOMAIN o : i # j => o[i] # o[j]}

\* ---------------------------------------------------------------- the cart
\* GET /cart (lines 395-399); prices in hundredths
cart_items == <<[title |-> "Reife Blessuren", price |-> 2390, quantity |-> 1]>>

RECURSIVE sum(_)
sum(items) == IF items = <<>> THEN 0
              ELSE Head(items).price * Head(items).quantity + sum(Tail(items))

cart ==
    [Response("cart", 200) EXCEPT !.success = TRUE, !.items = cart_items,
                                  !.total = sum(cart_items)]

\* ----------------------------------------------------------- the catalogue
\* produkte.json is not part of the sources; two products stand for it, one
\* linked to the oracle by an EAN and one without.
Produkt(id, name, kategorie, preis, ean) ==
    [id |-> id, name |-> name, kategorie |-> kategorie, preis |-> preis,
     ean |-> ean, autor |-> Absent, bestand |-> Absent,
     erfuellungsrate |-> Absent, handling_zeit |-> Absent]

Katalog == <<Produkt("1", "Buch", "Klassiker", 1500, "e1"),
             Produkt("2", "Heft", "Weihnachten", 800, None)>>

\* produkt.update(api_produkt) (line 241)
update_produkt(p, api) ==
    [p EXCEPT !.id = api.id, !.name = api.name, !.autor = api.autor,
              !.preis = api.preis]

\* produkt.update(movement) (line 244)
update_movement(p, m) ==
    [p EXCEPT !.preis = m.preis, !.bestand = m.bestand,
              !.erfuellungsrate = m.erfuellungsrate,
              !.handling_zeit = m.handling_zeit]

\* the setdefault calls (lines 245-248); "preis" is always a key here
setdefaults(p) ==
    [p EXCEPT !.bestand = IF @ = Absent THEN "n/a" ELSE @,
              !.handling_zeit = IF @ = Absent THEN "n/a" ELSE @,
              !.erfuellungsrate = IF @ = Absent THEN "n/a" ELSE @]

\* GET /produkt/<id> (lines 233-249).  produkt is the dict inside the list
\* produkte, so every update writes the catalogue.
produkt_detail(e, kat, produkt_id, content, movement_reply) ==
    LET hits == {i \in 1..Len(kat) : kat[i].id = produkt_id}
        req == Response("produkt_detail", 404)
    IN IF hits = {} THEN [produkte |-> kat, resp |-> req]
       ELSE LET i == CHOOSE h \in hits : \A g \in hits : h <= g
                p0 == kat[i]
                api == lade_produkt_von_api(e, content)
                p1 == IF api.k = "dict" THEN update_produkt(p0, api) ELSE p0
                mov == lade_bestand_von_api(e, movement_reply)
                p2 == IF mov.k = "dict" THEN update_movement(p1, mov) ELSE p1
                ok == [req EXCEPT !.status = 200, !.success = TRUE, !.lookup = mov.k]
                err == [req EXCEPT !.status = 500, !.lookup = "raise"]
            IN IF p0.ean = None
               THEN [produkte |-> [kat EXCEPT ![i] = setdefaults(p0)],
                     resp |-> [ok EXCEPT !.lookup = "none"]]
               ELSE IF api.k = "raise"
               THEN [produkte |-> kat, resp |-> err]
               ELSE IF mov.k = "raise"
               THEN [produkte |-> [kat EXCEPT ![i] = p1], resp |-> err]
               ELSE [produkte |-> [kat EXCEPT ![i] = setdefaults(p2)], resp |-> ok]

\* ------------------------------------------------------------------ inputs
\* the email of the JSON body: missing or given
Emails == {None, "a@b.com"}

\* the fields of the checkout form: missing, empty or filled in
FormEmails == {None, "", "a@b.com"}

Names == {None, "", "Ada"}

\* one line of auftrag_position with the oracle's answer to its lookup
Pos(ean, menge, reply) ==
    [ean |-> ean, menge |-> menge, pos_bezeichnung |-> "Titel", reply |-> reply]

\* an available line, a line the oracle has nothing for and a line whose
\* lookup raises
PosInputs == {Pos("e1", <<"2">>, R_obj), Pos("e2", <<>>, R_neterr),
              Pos("e2", <<"1">>, R_str)}

RECURSIVE SeqsUpTo(_, _)
SeqsUpTo(S, n) ==
    IF n = 0 THEN {<<>>}
    ELSE SeqsUpTo(S, n - 1)
         \cup {Append(q, x) : q \in {r \in SeqsUpTo(S, n - 1) : Len(r) = n - 1}, x \in S}

Auftraege == SeqsUpTo(PosInputs, MaxLines)

ProduktIds == {"1", "2", "7"}

\* ------------------------------------------------------------------- state
Init ==
    /\ env \in [db_engine : {"sqlite", "postgresql"}, buchbutler : BOOLEAN,
                sendgrid : BOOLEAN]
    /\ Bestellung = {}
    /\ BestellPosition = {}
    /\ StornoToken = {}
    /\ sequences = [B |-> 0, P |-> 0, T |-> 0]
    /\ utcnow = 0
    /\ produkte = Katalog
    /\ last = Response("start", 0)

Store(db) ==
    /\ Bestellung' = db.B
    /\ BestellPosition' = db.P
    /\ StornoToken' = db.T
    /\ sequences' = db.seq

\* the model hands out no id beyond its bounds
IdsLeft(table, rows, max) == next_id(env, rows, sequences[table]) <= max

\* whether the request gets as far as the commit of line 281
erreicht_commit(e, data) ==
    /\ truthy(data.email)
    /\ positionen_schleife(e, data.auftrag_position, 0, <<>>).k = "ok"

\* The clock and the mail provider are drawn for the requests that commit;
\* the outcome of the others depends on neither.
NeueBestellung ==
    /\ IdsLeft("B", Bestellung, MaxId)
    /\ IdsLeft("T", StornoToken, MaxId)
    /\ \E email \in Emails, lines \in Auftraege :
         LET data == [email |-> email, auftrag_position |-> lines]
             commits == erreicht_commit(env, data)
         IN \E now \in IF commits THEN utcnow..MaxClock ELSE {utcnow},
               provider \in IF commits /\ env.sendgrid THEN {"ok", "fail"} ELSE {"ok"} :
              \E r \in {neue_bestellung(env, DB, data, now, provider)} :
                 /\ Store(r.db)
                 /\ last' = Delta(r.resp, DB, r.db)
                 /\ utcnow' = now
    /\ UNCHANGED <<env, produkte>>

Checkout ==
    /\ IdsLeft("B", Bestellung, MaxId)
    /\ \E name \in Names, email \in FormEmails, now \in utcnow..MaxClock :
         \E r \in {checkout(env, DB,
                    [name |-> name, email |-> email, nlines |-> Len(cart_items)], now)} :
            /\ Store(r.db)
            /\ last' = Delta(r.resp, DB, r.db)
            /\ utcnow' = now
    /\ UNCHANGED <<env, produkte>>

BestellungLoeschen ==
    /\ \E bestell_id \in 1..MaxId :
         \E r \in {bestellung_loeschen(env, DB, bestell_id)} :
            /\ Store(r.db)
            /\ last' = Delta(r.resp, DB, r.db)
    /\ UNCHANGED <<env, produkte, utcnow>>

AlleBestellungen ==
    /\ \E order \in RowOrders(Bestellung) : last' = alle_bestellungen(DB, order)
    /\ UNCHANGED <<env, Bestellung, BestellPosition, StornoToken, sequences,
                   utcnow, produkte>>

ProduktDetail ==
    /\ \E produkt_id \in ProduktIds, content \in Replies, movement \in Replies :
         \E r \in {produkt_detail(env, produkte, produkt_id, content, movement)} :
            /\ produkte' = r.produkte
            /\ last' = r.resp
    /\ UNCHANGED <<env, Bestellung, BestellPosition, StornoToken, sequences, utcnow>>

Cart ==
    /\ last' = cart
    /\ UNCHANGED <<env, Bestellung, BestellPosition, StornoToken, sequences,
                   utcnow, produkte>>

\* The ledger handlers
Next ==
    \/ NeueBestellung
    \/ Checkout
    \/ BestellungLoeschen
    \/ AlleBestellungen

Spec == Init /\ [][Next]_vars

\* POST /bestellung and DELETE /bestellung/<id> alone
NextBestellung ==
    \/ NeueBestellung
    \/ BestellungLoeschen

SpecBestellung == Init /\ [][NextBestellung]_vars

\* The catalogue and cart pages; they share no state with the ledger.
NextKatalog ==
    \/ ProduktDetail
    \/ Cart

SpecKatalog == Init /\ [][NextKatalog]_vars

\* ------------------------------------------------------------- properties
Submissions == {"neue_bestellung", "checkout"}

PositionenVon(bestell_id) == {p \in BestellPosition : p.bestell_id = bestell_id}

TokensVon(bestell_id) == {t \in StornoToken : t.bestell_id = bestell_id}

\* C1: a POST /bestellung with an email, one of whose lines the oracle
\* reports unavailable for, leaves no Bestellung and no BestellPosition row
\* behind and is answered as a failure.
C1_UnavailableRollsBack ==
    (last.route = "neue_bestellung" /\ last.email /\ last.unavailable > 0)
        => /\ ~last.success
           /\ last.status >= 400
           /\ last.added = NoCount

\* a request whose second line is unavailable, after its first line had been
\* added to the session
C1_Witness ==
    /\ last.route = "neue_bestellung"
    /\ last.unavailable = 2
    /\ last.pending = 1
    /\ last.status = 400

\* C2: a submission without an email or without lines creates no Bestellung
\* and no BestellPosition row and is answered as a failure, on both routes.
C2_InvalidSubmissionWritesNothing ==
    (last.route \in Submissions /\ (~last.email \/ last.nlines = 0))
        => /\ ~last.success
           /\ last.added.B = 0
           /\ last.added.P = 0

\* C3: a successful submission on either route creates one Bestellung row and
\* one BestellPosition row per line, all with the new id, and leaves the cart
\* empty.
C3_SuccessWritesOrderAndLines ==
    (last.route \in Submissions /\ last.success)
        => /\ last.added.B = 1
           /\ last.added.P = last.nlines
           /\ Cardinality(PositionenVon(last.bestellId)) = last.nlines
           /\ cart_items = <<>>

\* C4: DELETE /bestellung/<id> of an existing Bestellung removes it and every
\* BestellPosition of it and nothing else; of an unknown id it answers 404
\* and changes nothing.
C4_DeleteCascades ==
    last.route = "bestellung_loeschen"
        => IF last.existed
           THEN /\ last.bestellId \notin Ids(Bestellung)
                /\ PositionenVon(last.bestellId) = {}
                /\ last.removed.B = 1
                /\ last.added = NoCount
           ELSE /\ last.status = 404
                /\ last.added = NoCount
                /\ last.removed = NoCount

\* C5: the order mail is requested after the commit, and when the send
\* raises the Bestellung and its BestellPosition rows stay and the request
\* is answered with success and the new id.
C5_MailFailureKeepsOrder ==
    (last.route = "neue_bestellung" /\ last.send # "none")
        => /\ last.committed_at_send
           /\ last.send = "raise"
                => /\ last.status = 200
                   /\ last.success
                   /\ last.bestellId \in Ids(Bestellung)
                   /\ Cardinality(PositionenVon(last.bestellId)) = last.nlines
                   /\ last.added.B = 1
                   /\ last.added.P = last.nlines

\* an order of two lines whose mail the provider refused
C5_Witness ==
    /\ last.route = "neue_bestellung"
    /\ last.send = "raise"
    /\ last.nlines = 2
    /\ last.bestellId \in Ids(Bestellung)

\* C6: every Bestellung has exactly one StornoToken with its id, and a
\* failed submission creates none.
C6_OneTokenPerOrder ==
    /\ \A b \in Bestellung : Cardinality(TokensVon(b.id)) = 1
    /\ (last.route \in Submissions /\ ~last.success) => last.added.T = 0

\* C7: lade_bestand_von_api and lade_produkt_von_api never raise, whatever
\* the exchange with the provider: no product page ends in an exception of
\* one of its two lookups.
C7_LookupsNeverRaise ==
    last.route = "produkt_detail" => last.lookup # "raise"

\* C8: every product of the catalogue keeps the id, name, category and price
\* it was loaded with.
C8_CatalogImmutable ==
    \A i \in 1..Len(Katalog) :
        /\ produkte[i].id = Katalog[i].id
        /\ produkte[i].name = Katalog[i].name
        /\ produkte[i].kategorie = Katalog[i].kategorie
        /\ produkte[i].preis = Katalog[i].preis

\* C9: GET /bestellungen lists every Bestellung once, newest first.
C9_ListingNewestFirst ==
    last.route = "alle_bestellungen"
        => /\ Len(last.listing) = Cardinality(Bestellung)
           /\ {last.listing[i].id : i \in 1..Len(last.listing)} = Ids(Bestellung)
           /\ \A i \in 1..(Len(last.listing) - 1) :
                last.listing[i].bestelldatum >= last.listing[i + 1].bestelldatum

\* C10: the cart page shows the session's cart: empty as long as nothing was
\* added (no handler adds anything), one line per product, and the total of
\* its lines.
C10_CartIsSessionCart ==
    last.route = "cart"
        => /\ last.items = <<>>
           /\ \A i, j \in 1..Len(last.items) :
                last.items[i].title = last.items[j].title => i = j
           /\ last.total = sum(last.items)

====
